---- MODULE Spec2Model ----
(***************************************************************************)
(* Photo upload -> face tagging pipeline of the dumpy client.              *)
(*   uploadAndTagPhoto / uploadAndTagPhotoBatch  (lib/uploadService.ts)    *)
(*   uploadToAzureBlob / timedPutBlob            (lib/azureStorage.ts)     *)
(*   ApiClient.identifyMultiFacesGrouped         (lib/apiClient.ts)        *)
(*   DumpWorkspace slideshow polling             (app/dumps/[id].tsx)      *)
(*   UploadScreen.handleUpload                   (app/(tabs)/upload.tsx)   *)
(* Every await is a step boundary: an action is the arrival of one         *)
(* response plus the synchronous code that runs up to the next await.      *)
(* Similarities are scaled by 100 (0.6 is 60).                             *)
(***************************************************************************)
EXTENDS Integers, Sequences, FiniteSets, TLC

VARIABLES apiBase, staticCfg, threshold, n, bpc, idx, results, frame,
          outcome, media, blobs, idc, dw, scr

vars == <<apiBase, staticCfg, threshold, n, bpc, idx, results, frame,
          outcome, media, blobs, idc, dw, scr>>

\* What no step of the upload pipeline changes: the configuration, the
\* options, and the state of the other components.
env == <<apiBase, staticCfg, threshold, n, idc, dw, scr>>

\* The state of the upload pipeline.
pipe == <<apiBase, staticCfg, threshold, n, bpc, idx, results, frame,
          outcome, media, blobs>>

\* ---------------------------------------------------------------- bounds
MaxImages == 2
MaxFaces == 2
MaxMatches == 1
MaxJobs == 2
MaxInFlight == 2
MaxRetries == 1

\* ------------------------------------------------------------- constants
DefaultThreshold == 60
CreatedStatus == 201

Users == {1, 2}
Sims == {60, 70}
\* faceRecognitionOptions.threshold: absent (<<>>) or a number (<<t>>)
Thresholds == {<<>>, <<70>>}
PutStatuses == {CreatedStatus, 403}

Images == 1 .. MaxImages

Range(s) == {s[k] : k \in 1 .. Len(s)}

SeqsUpTo(S, m) == UNION {[1 .. k -> S] : k \in 0 .. m}

\* ------------------------------------------------- face identification
\* A candidate match as the backend sends it.
FaceMatch == [user_id : Users, similarity : Sims]

\* A null entry in a list of matches (a malformed response).
NullMatch == [user_id |-> 0, similarity |-> -1]

\* What a null entry of `results` is mapped to: an object whose user_id and
\* similarity are undefined (it never meets a threshold).
UndefMatch == [user_id |-> 0, similarity |-> -2]

\* A JSON field that may or may not hold a list.
List(l) == [isList |-> TRUE, val |-> l]
NotAList == [isList |-> FALSE, val |-> <<>>]

Box == <<10, 20, 30, 40>>

\* Raw per-face objects: the backend shape carries `results` and `prob`, the
\* already normalized shape carries `matches` and `probability`; a face may
\* carry neither list. A number that is absent is <<>>.
RawFace ==
    {[results |-> List(l), matches |-> NotAList, box |-> List(Box),
      prob |-> <<99>>, probability |-> <<>>] :
        l \in SeqsUpTo(FaceMatch, MaxMatches)}
        \cup {[results |-> NotAList, matches |-> List(l), box |-> List(Box),
               prob |-> <<>>, probability |-> <<99>>] :
                 l \in SeqsUpTo(FaceMatch \cup {NullMatch}, MaxMatches)}
        \cup {[results |-> NotAList, matches |-> NotAList, box |-> List(Box),
               prob |-> <<99>>, probability |-> <<>>]}

\* The photos of one batch show at most MaxFaces faces in total; the photo
\* picked in the upload screen shows at most one.
FaceCap == IF scr.pc = "idle" THEN MaxFaces \div n ELSE 1

\* Parsed bodies of an OK identify response.
RawResponses ==
    [kind : {"faces"}, faces : SeqsUpTo(RawFace, FaceCap)]
        \cup {[kind |-> "no_face_detected", faces |-> <<>>],
              [kind |-> "not_a_list", faces |-> <<>>]}

\* f.results.map(m => ({ user_id: m?.user_id, similarity: m?.similarity }))
MapResult(m) == IF m = NullMatch THEN UndefMatch
                ELSE [user_id |-> m.user_id, similarity |-> m.similarity]

\* A variant that looks at `matches` before `results`.
NormalizeFaceMatchesFirst(f, k) ==
    [face_index |-> k - 1,
     box |-> IF f.box.isList THEN f.box.val ELSE <<>>,
     probability |-> IF f.prob # <<>> THEN f.prob[1]
                     ELSE IF f.probability # <<>> THEN f.probability[1] ELSE 0,
     matches |-> IF f.matches.isList THEN f.matches.val
                 ELSE IF f.results.isList
                      THEN [j \in 1 .. Len(f.results.val) |->
                               MapResult(f.results.val[j])]
                      ELSE <<>>]

\* apiClient.identifyMultiFacesGrouped, the normalization of one raw face.
NormalizeFace(f, k) ==
    [face_index |-> k - 1,
     box |-> IF f.box.isList THEN f.box.val ELSE <<>>,
     probability |-> IF f.prob # <<>> THEN f.prob[1]
                     ELSE IF f.probability # <<>> THEN f.probability[1] ELSE 0,
     matches |-> IF f.results.isList
                 THEN [j \in 1 .. Len(f.results.val) |->
                          MapResult(f.results.val[j])]
                 ELSE IF f.matches.isList THEN f.matches.val ELSE <<>>]

\* apiClient.identifyMultiFacesGrouped, from the parsed body to the result.
Normalize(raw) ==
    LET rawFaces == IF raw.kind = "faces" THEN raw.faces ELSE <<>>
        faces == [k \in 1 .. Len(rawFaces) |-> NormalizeFace(rawFaces[k], k)]
    IN  [faces |-> faces, total_faces |-> Len(faces)]

\* faceRecognitionOptions.threshold ?? 0.6
EffectiveThreshold(t) == IF t = <<>> THEN DefaultThreshold ELSE t[1]

\* A variant with a strict comparison.
MeetsThresholdStrict(sim, t) == sim > EffectiveThreshold(t)

\* match.similarity >= (threshold ?? 0.6)
MeetsThreshold(sim, t) == sim >= EffectiveThreshold(t)

\* A variant that collects into a list instead of a set.
SetAddDup(s, x) == Append(s, x)

\* Set.add on an insertion-ordered set
SetAdd(s, x) == IF x \in Range(s) THEN s ELSE Append(s, x)

\* matchesArr.forEach: folds the matches of one face into the id set; reading
\* .similarity of a null entry throws.
RECURSIVE FilterMatches(_, _, _, _)
FilterMatches(ms, k, t, acc) ==
    IF acc.threw \/ k > Len(ms) THEN acc
    ELSE IF ms[k] = NullMatch THEN [acc EXCEPT !.threw = TRUE]
    ELSE FilterMatches(ms, k + 1, t,
            IF MeetsThreshold(ms[k].similarity, t)
            THEN [acc EXCEPT !.ids = SetAdd(acc.ids, ms[k].user_id)]
            ELSE acc)

\* facesArr.forEach
RECURSIVE FilterFaces(_, _, _, _)
FilterFaces(fs, k, t, acc) ==
    IF acc.threw \/ k > Len(fs) THEN acc
    ELSE FilterFaces(fs, k + 1, t, FilterMatches(fs[k].matches, 1, t, acc))

ExtractTaggedUsers(faceResult, t) ==
    FilterFaces(faceResult.faces, 1, t, [ids |-> <<>>, threw |-> FALSE])

\* --------------------------------------------------------------- frames
NoFaceResult == [faces |-> <<>>, total_faces |-> 0]
NoUrl == <<"none", 0>>
NoError == [kind |-> "none", status |-> 0]
NoResult == [mediaId |-> 0, fileUrl |-> NoUrl, taggedUsers |-> <<>>,
             faceCount |-> 0]

\* The locals of one call of uploadAndTagPhoto, with its position (pc) and
\* the requests and responses it has seen so far (log).
BlankFrame ==
    [pc |-> "idle", fileUrl |-> NoUrl,
     mediaId |-> 0, faceResult |-> NoFaceResult, faceCount |-> 0,
     taggedUsers |-> <<>>, error |-> NoError, log |-> <<>>]

\* One call of apiClient.identifyMultiFacesGrouped on its own: its position,
\* the requests it has sent, the answer it got and what it returned.
NoBody == [kind |-> "none", faces |-> <<>>]
IdcIdle == [pc |-> "idle", requests |-> 0, resp |-> "none", raw |-> NoBody,
            out |-> NoFaceResult]

\* The DumpWorkspace screen, not mounted: its state hooks, the ref that
\* holds the polling timer (0 is null; a timer is named after the job it
\* polls), the intervals that are set, the requests in flight, and what has
\* been observed per job (term: a terminal status was answered; late: a
\* status request was sent after that).
Jobs == 1 .. MaxJobs

DwIdle ==
    [mounted |-> FALSE, modal |-> FALSE, gen |-> FALSE, pollingInterval |-> 0,
     timers |-> {}, inflight |-> [j \in Jobs |-> 0], jobs |-> 0, jobId |-> 0,
     jobStatus |-> "null", slideshowUrl |-> FALSE, term |-> {}, late |-> {}]

\* The upload screen, not shown: its position, the calls of uploadAndTagPhoto
\* it has made and the times Retry was chosen.
ScrIdle == [pc |-> "idle", runs |-> 0, retries |-> 0]

InProgress == {"compress", "proxy", "sas", "head", "info", "put", "insert",
               "identify", "update"}
Settled == {"resolved", "rejected"}

Init ==
    /\ apiBase \in BOOLEAN
    /\ staticCfg \in BOOLEAN
    /\ threshold \in Thresholds
    /\ n \in 1 .. MaxImages
    /\ bpc = "loop"
    /\ idx = 1
    /\ results = <<>>
    /\ frame = [i \in Images |-> BlankFrame]
    /\ outcome = [i \in Images |-> [status |-> "pending", result |-> NoResult]]
    /\ media = <<>>
    /\ blobs = {}
    /\ idc = IdcIdle
    /\ dw = DwIdle
    /\ scr = ScrIdle

\* ------------------------------------------------- uploadAndTagPhoto
Logged(f, evs) == [f EXCEPT !.log = @ \o evs]

\* A variant that reports the URL the direct upload would have produced.
ResolveReportsBlobUrl(i, f) ==
    /\ frame' = [frame EXCEPT ![i] = [f EXCEPT !.pc = "resolved"]]
    /\ outcome' = [outcome EXCEPT ![i] =
          [status |-> "resolved",
           result |-> [mediaId |-> f.mediaId, fileUrl |-> <<"blob", i>>,
                       taggedUsers |-> f.taggedUsers,
                       faceCount |-> f.faceCount]]]

\* return { mediaId, fileUrl, taggedUsers, faceCount }
Resolve(i, f) ==
    /\ frame' = [frame EXCEPT ![i] = [f EXCEPT !.pc = "resolved"]]
    /\ outcome' = [outcome EXCEPT ![i] =
          [status |-> "resolved",
           result |-> [mediaId |-> f.mediaId, fileUrl |-> f.fileUrl,
                       taggedUsers |-> f.taggedUsers,
                       faceCount |-> f.faceCount]]]

\* catch (error) { ...; throw error }
Reject(i, f, kind, status) ==
    /\ frame' = [frame EXCEPT ![i] =
          [f EXCEPT !.pc = "rejected",
                    !.error = [kind |-> kind, status |-> status]]]
    /\ outcome' = [outcome EXCEPT ![i] =
          [status |-> "rejected", result |-> NoResult]]

Continue(i, f, pc) ==
    /\ frame' = [frame EXCEPT ![i] = [f EXCEPT !.pc = pc]]
    /\ UNCHANGED outcome

ProxyUrl(i) == <<"proxy", i>>
BlobUrl(i) == <<"blob", i>>

\* Image inspection and optional resize; any error is caught and the
\* original image is used (the image bytes are not part of the state). Then
\* the proxy upload request is sent.
CompressOutcomes == {"error", "small", "resized"}

\* A variant that tries the direct blob upload before the proxy.
CompressDoneDirectFirst(i) ==
    /\ frame[i].pc = "compress"
    /\ \E o \in CompressOutcomes :
          IF staticCfg
          THEN Continue(i, Logged(frame[i], <<"info_req">>), "info")
          ELSE IF apiBase
               THEN Continue(i, Logged(frame[i], <<"sas_req">>), "sas")
               ELSE Reject(i, Logged(frame[i], <<"blob_fail">>),
                           "missing_config", 0)
    /\ UNCHANGED <<env, bpc, idx, results, media, blobs>>

CompressDone(i) ==
    /\ frame[i].pc = "compress"
    /\ \E o \in CompressOutcomes :
          Continue(i, Logged(frame[i], <<"proxy_req">>), "proxy")
    /\ UNCHANGED <<env, bpc, idx, results, media, blobs>>

\* A variant that does not await the insert before identifying.
IssueInsertNoAwait(i, f, url) ==
    Continue(i, Logged([f EXCEPT !.fileUrl = url],
                       <<"insert_req", "identify_req">>), "insert")

\* supabase.from('media').insert({... file_url: fileUrl, tagged_users: []})
IssueInsert(i, f, url) ==
    Continue(i, Logged([f EXCEPT !.fileUrl = url], <<"insert_req">>), "insert")

\* A variant that swallows the missing configuration and goes on to the insert.
EnterBlobUploadSwallowed(i, f) ==
    IF staticCfg
    THEN Continue(i, Logged(f, <<"info_req">>), "info")
    ELSE IF apiBase
         THEN Continue(i, Logged(f, <<"sas_req">>), "sas")
         ELSE IssueInsert(i, Logged(f, <<"blob_fail">>), NoUrl)

\* A variant that asks the backend for a write URL whenever it can.
EnterBlobUploadSasFirst(i, f) ==
    IF apiBase
    THEN Continue(i, Logged(f, <<"sas_req">>), "sas")
    ELSE IF staticCfg
         THEN Continue(i, Logged(f, <<"info_req">>), "info")
         ELSE Reject(i, Logged(f, <<"blob_fail">>), "missing_config", 0)

\* Entry of uploadToAzureBlob up to its first await: with account, container
\* and SAS token all configured (staticCfg) it goes straight to timedPutBlob,
\* otherwise it asks the backend for a write URL when an API base is set.
EnterBlobUpload(i, f) ==
    IF staticCfg
    THEN Continue(i, Logged(f, <<"info_req">>), "info")
    ELSE IF apiBase
         THEN Continue(i, Logged(f, <<"sas_req">>), "sas")
         ELSE Reject(i, Logged(f, <<"blob_fail">>), "missing_config", 0)

\* The answer to POST /api/upload/media.
ProxyOutcomes == IF apiBase THEN {"throw", "not_ok", "ok", "ok_bad_json"}
                 ELSE {"throw", "not_ok"}

\* A variant that creates the record although the proxy upload failed.
ProxyRespInsertsAnyway(i) ==
    /\ frame[i].pc = "proxy"
    /\ \E o \in ProxyOutcomes :
          CASE o = "throw" ->
                  /\ Reject(i, Logged(frame[i], <<"proxy_throw">>), "proxy_throw", 0)
                  /\ UNCHANGED blobs
            [] o = "ok_bad_json" ->
                  /\ Reject(i, Logged(frame[i], <<"proxy_throw">>), "proxy_json", 0)
                  /\ blobs' = blobs \cup {ProxyUrl(i)}
            [] o = "ok" ->
                  /\ IssueInsert(i, Logged(frame[i], <<"proxy_ok">>), ProxyUrl(i))
                  /\ blobs' = blobs \cup {ProxyUrl(i)}
            [] o = "not_ok" ->
                  /\ IssueInsert(i, Logged(frame[i], <<"proxy_not_ok">>), ProxyUrl(i))
                  /\ UNCHANGED blobs
    /\ UNCHANGED <<env, bpc, idx, results, media>>

\* The answer to POST /api/upload/media: without an OK status the direct
\* blob upload is tried; an exception of the fetch or of resp.json() is fatal.
ProxyResp(i) ==
    /\ frame[i].pc = "proxy"
    /\ \E o \in ProxyOutcomes :
          CASE o = "throw" ->
                  /\ Reject(i, Logged(frame[i], <<"proxy_throw">>), "proxy_throw", 0)
                  /\ UNCHANGED blobs
            [] o = "ok_bad_json" ->
                  /\ Reject(i, Logged(frame[i], <<"proxy_throw">>), "proxy_json", 0)
                  /\ blobs' = blobs \cup {ProxyUrl(i)}
            [] o = "ok" ->
                  /\ IssueInsert(i, Logged(frame[i], <<"proxy_ok">>), ProxyUrl(i))
                  /\ blobs' = blobs \cup {ProxyUrl(i)}
            [] o = "not_ok" ->
                  /\ EnterBlobUpload(i, Logged(frame[i], <<"proxy_not_ok">>))
                  /\ UNCHANGED blobs
    /\ UNCHANGED <<env, bpc, idx, results, media>>

\* A variant without the configuration check after a failed retrieval.
SasFailedFallsThrough(i, f) ==
    Continue(i, Logged(f, <<"sas_fail", "info_req">>), "info")

\* The write URL could not be obtained: the configuration is still missing
\* and uploadToAzureBlob throws.
SasFailed(i, f) ==
    Reject(i, Logged(f, <<"sas_fail", "blob_fail">>), "missing_config", 0)

\* The answer to POST /api/getUploadUrl.
SasResp(i) ==
    /\ frame[i].pc = "sas"
    /\ \E o \in {"ok", "not_ok", "throw"} :
          IF o = "ok"
          THEN Continue(i, Logged(frame[i], <<"sas_ok", "head_req">>), "head")
          ELSE SasFailed(i, frame[i])
    /\ UNCHANGED <<env, bpc, idx, results, media, blobs>>

\* The HEAD preflight; its failure is only logged. timedPutBlob follows.
HeadResp(i) ==
    /\ frame[i].pc = "head"
    /\ \E o \in {"ok", "throw"} :
          Continue(i, Logged(frame[i], <<"head_done", "info_req">>), "info")
    /\ UNCHANGED <<env, bpc, idx, results, media, blobs>>

\* An error thrown by timedPutBlob. With static credentials it reaches the
\* caller; on the dynamic path it is caught by the handler of the SAS
\* retrieval, and the missing configuration is reported instead.
\* A variant that writes a second time after the first write on the
\* dynamically issued URL was refused.
PutRejectedWritesAgain(i, f, ev, kind, st) ==
    IF staticCfg
    THEN Reject(i, Logged(f, <<ev, "blob_fail">>), kind, st)
    ELSE IF ev = "put_not_created" /\ ev \notin Range(f.log)
         THEN Continue(i, Logged(f, <<ev, "put_req">>), "put")
         ELSE Reject(i, Logged(f, <<ev, "blob_fail">>), "missing_config", 0)

PutRejected(i, f, ev, kind, st) ==
    IF staticCfg
    THEN Reject(i, Logged(f, <<ev, "blob_fail">>), kind, st)
    ELSE Reject(i, Logged(f, <<ev, "blob_fail">>), "missing_config", 0)

\* timedPutBlob, the answer of FileSystem.getInfoAsync: the PUT is sent only
\* for a file that exists.
InfoResp(i) ==
    /\ frame[i].pc = "info"
    /\ \E o \in {"exists", "missing", "throw"} :
          IF o = "exists"
          THEN Continue(i, Logged(frame[i], <<"info_ok", "put_req">>), "put")
          ELSE PutRejected(i, frame[i], "info_fail", "file_missing", 0)
    /\ UNCHANGED <<env, bpc, idx, results, media, blobs>>

\* timedPutBlob, the answer to the PUT: only status 201 counts as success.
PutResp(i) ==
    /\ frame[i].pc = "put"
    /\ \/ \E st \in PutStatuses :
             IF st = CreatedStatus
             THEN /\ IssueInsert(i, Logged(frame[i], <<"put_ok", "blob_ok">>),
                                 BlobUrl(i))
                  /\ blobs' = blobs \cup {BlobUrl(i)}
             ELSE /\ PutRejected(i, frame[i], "put_not_created", "put_status", st)
                  /\ UNCHANGED blobs
       \/ /\ PutRejected(i, frame[i], "put_throw", "put_throw", 0)
          /\ UNCHANGED blobs
    /\ UNCHANGED <<env, bpc, idx, results, media>>

\* The row the insert creates; media_id is generated by the store.
NewMediaRow(i, f) ==
    [media_id |-> Len(media) + 1, event_id |-> 1, file_url |-> f.fileUrl,
     file_type |-> "image", uploaded_by |-> 1, tagged_users |-> <<>>,
     updates |-> 0]

\* apiClient.identifyMultiFacesGrouped up to its fetch: ensureConfigured
\* throws before any request when no API base is configured, and the
\* orchestrator catches it.
IssueIdentify(i, f) ==
    IF apiBase
    THEN Continue(i, Logged(f, <<"identify_req">>), "identify")
    ELSE Resolve(i, Logged(f, <<"identify_err">>))

\* A variant that logs the insert error and carries on.
InsertFailedSwallowed(i, f) == IssueIdentify(i, Logged(f, <<"insert_err">>))

\* if (mediaError || !mediaData) throw new Error(...)
InsertFailed(i, f) == Reject(i, Logged(f, <<"insert_err">>), "insert", 0)

\* The answer of the store to insert(...).select().single().
InsertResp(i) ==
    /\ frame[i].pc = "insert"
    /\ \E o \in {"ok", "error", "no_row"} :
          IF o = "ok"
          THEN /\ media' = Append(media, NewMediaRow(i, frame[i]))
               /\ IssueIdentify(i, Logged([frame[i] EXCEPT !.mediaId = Len(media) + 1],
                                          <<"insert_ok">>))
          ELSE /\ UNCHANGED media
               /\ InsertFailed(i, frame[i])
    /\ UNCHANGED <<env, bpc, idx, results, blobs>>

\* faceCount = faceResult.total_faces (a number for every normalized result)
FaceCountOf(faceResult) == faceResult.total_faces

\* A variant that sends the update unconditionally.
SendsUpdateAlways(taggedUsers) == TRUE

\* if (taggedUsers.length > 0) the update of the record is sent
SendsUpdate(taggedUsers) == Len(taggedUsers) > 0

\* A variant that treats a photo without faces as a failed upload.
AfterIdentifyRequiresFace(i, f, faceResult) ==
    LET acc == ExtractTaggedUsers(faceResult, threshold)
        f1 == [f EXCEPT !.faceResult = faceResult,
                        !.faceCount = FaceCountOf(faceResult)]
    IN  IF faceResult.total_faces = 0
        THEN Reject(i, Logged(f1, <<"identify_ok">>), "no_face", 0)
        ELSE IF acc.threw
        THEN Resolve(i, Logged(f1, <<"identify_ok", "filter_err">>))
        ELSE IF SendsUpdate(acc.ids)
             THEN Continue(i, Logged([f1 EXCEPT !.taggedUsers = acc.ids],
                                     <<"identify_ok", "filtered", "update_req">>),
                           "update")
             ELSE Resolve(i, Logged([f1 EXCEPT !.taggedUsers = acc.ids],
                                    <<"identify_ok", "filtered">>))

\* The synchronous code after identifyMultiFacesGrouped returned: the face
\* count, the filter loop, and the decision to send the tag update. An
\* exception in the loop is caught by the face recognition handler.
AfterIdentify(i, f, faceResult) ==
    LET acc == ExtractTaggedUsers(faceResult, threshold)
        f1 == [f EXCEPT !.faceResult = faceResult,
                        !.faceCount = FaceCountOf(faceResult)]
    IN  IF acc.threw
        THEN Resolve(i, Logged(f1, <<"identify_ok", "filter_err">>))
        ELSE IF SendsUpdate(acc.ids)
             THEN Continue(i, Logged([f1 EXCEPT !.taggedUsers = acc.ids],
                                     <<"identify_ok", "filtered", "update_req">>),
                           "update")
             ELSE Resolve(i, Logged([f1 EXCEPT !.taggedUsers = acc.ids],
                                    <<"identify_ok", "filtered">>))

\* The answer to POST /api/face/identify_multi_local_grouped.
IdentifyResp(i) ==
    /\ frame[i].pc = "identify"
    /\ \/ \E o \in {"throw", "not_ok", "bad_json"} :
             Resolve(i, Logged(frame[i], <<"identify_err">>))
       \/ \E raw \in RawResponses :
             AfterIdentify(i, frame[i], Normalize(raw))
    /\ UNCHANGED <<env, bpc, idx, results, media, blobs>>

\* update({ tagged_users }).eq('media_id', id) on the store
\* A variant that writes the tags to every record of the event.
UpdateTagsOfEvent(rows, id, tags) ==
    [k \in 1 .. Len(rows) |->
        [rows[k] EXCEPT !.tagged_users = tags, !.updates = @ + 1]]

UpdateTags(rows, id, tags) ==
    [k \in 1 .. Len(rows) |->
        IF rows[k].media_id = id
        THEN [rows[k] EXCEPT !.tagged_users = tags, !.updates = @ + 1]
        ELSE rows[k]]

\* A variant that, when the tag update fails, waits for a retry that nothing
\* triggers.
UpdateRespAwaitsRetry(i) ==
    /\ frame[i].pc = "update"
    /\ \E o \in {"ok", "error", "throw"} :
          IF o = "ok"
          THEN /\ media' = UpdateTags(media, frame[i].mediaId, frame[i].taggedUsers)
               /\ Resolve(i, Logged(frame[i], <<"update_ok">>))
          ELSE /\ UNCHANGED media
               /\ Continue(i, Logged(frame[i], <<"update_err">>), "retry_wait")
    /\ UNCHANGED <<env, bpc, idx, results, blobs>>

\* The answer of the store to the tag update; an error is only logged.
UpdateResp(i) ==
    /\ frame[i].pc = "update"
    /\ \E o \in {"ok", "error", "throw"} :
          IF o = "ok"
          THEN /\ media' = UpdateTags(media, frame[i].mediaId, frame[i].taggedUsers)
               /\ Resolve(i, Logged(frame[i], <<"update_ok">>))
          ELSE /\ UNCHANGED media
               /\ Resolve(i, Logged(frame[i], <<"update_err">>))
    /\ UNCHANGED <<env, bpc, idx, results, blobs>>

\* -------------------------------------------- uploadAndTagPhotoBatch
\* A variant without the await.
LoopResumesNoAwait(i) == TRUE

\* `await uploadAndTagPhoto(uri, options)`: the loop resumes only when the
\* call has settled.
LoopResumes(i) == frame[i].pc \in Settled

\* The locals of a call that has returned are gone.
Returned(f) == IF f.pc \in Settled THEN [BlankFrame EXCEPT !.pc = "returned"]
               ELSE f

\* for (const uri of imageUris): the call of uploadAndTagPhoto, which runs
\* up to its first await.
BatchCall ==
    /\ bpc = "loop"
    /\ idx <= n
    /\ bpc' = "await"
    /\ frame' = [frame EXCEPT ![idx] = [BlankFrame EXCEPT !.pc = "compress"]]
    /\ UNCHANGED <<env, idx, results, outcome, media, blobs>>

\* results.push(result)
BatchPush ==
    /\ bpc = "await"
    /\ LoopResumes(idx)
    /\ frame[idx].pc # "rejected"
    /\ results' = Append(results, outcome[idx].result)
    /\ frame' = [frame EXCEPT ![idx] = Returned(@)]
    /\ idx' = idx + 1
    /\ bpc' = "loop"
    /\ UNCHANGED <<env, outcome, media, blobs>>

\* A variant that gives up on the first failure.
BatchCatchAbort ==
    /\ bpc = "await"
    /\ LoopResumes(idx)
    /\ frame[idx].pc = "rejected"
    /\ frame' = [frame EXCEPT ![idx] = Returned(@)]
    /\ idx' = n + 1
    /\ bpc' = "loop"
    /\ UNCHANGED <<env, results, outcome, media, blobs>>

\* catch (error): the failure is logged and the loop continues
BatchCatch ==
    /\ bpc = "await"
    /\ LoopResumes(idx)
    /\ frame[idx].pc = "rejected"
    /\ frame' = [frame EXCEPT ![idx] = Returned(@)]
    /\ idx' = idx + 1
    /\ bpc' = "loop"
    /\ UNCHANGED <<env, results, outcome, media, blobs>>

\* A variant that rejects when no image could be uploaded.
BatchReturnRejectsEmpty ==
    /\ bpc = "loop"
    /\ idx > n
    /\ bpc' = IF results = <<>> THEN "rejected" ELSE "done"
    /\ UNCHANGED <<env, idx, results, frame, outcome, media, blobs>>

\* return results
BatchReturn ==
    /\ bpc = "loop"
    /\ idx > n
    /\ bpc' = "done"
    /\ UNCHANGED <<env, idx, results, frame, outcome, media, blobs>>

Step(i) ==
    \/ CompressDone(i)
    \/ ProxyResp(i)
    \/ SasResp(i)
    \/ HeadResp(i)
    \/ InfoResp(i)
    \/ PutResp(i)
    \/ InsertResp(i)
    \/ IdentifyResp(i)
    \/ UpdateResp(i)

Next ==
    \/ BatchCall
    \/ BatchPush
    \/ BatchCatch
    \/ BatchReturn
    \/ \E i \in Images : Step(i)

Spec == Init /\ [][Next]_vars

\* Every external call eventually returns or fails, and the code between two
\* awaits runs: a step that can be taken is eventually taken.
\* The batch has MaxImages images (a shorter batch runs like its first
\* calls) and the caller sets no threshold.
InitLive == Init /\ n = MaxImages /\ threshold = <<>>

SpecLive == InitLive /\ [][Next]_vars /\ WF_vars(Next)

\* ------------------------------- apiClient.identifyMultiFacesGrouped
\* The client method on its own, with response bodies of every shape it
\* tolerates: faces that carry `results`, `matches`, both lists or neither,
\* lists with null entries, faces without a box or a probability.
IdMatches == {[user_id |-> 1, similarity |-> 60],
              [user_id |-> 2, similarity |-> 70], NullMatch}
IdLists == SeqsUpTo(IdMatches, MaxMatches)
OtherList == <<[user_id |-> 2, similarity |-> 60]>>

IdFaces ==
    {[results |-> List(l), matches |-> NotAList, box |-> List(Box),
      prob |-> <<99>>, probability |-> <<>>] : l \in IdLists}
        \cup {[results |-> NotAList, matches |-> List(l), box |-> List(Box),
               prob |-> <<>>, probability |-> <<98>>] : l \in IdLists}
        \cup {[results |-> List(l), matches |-> List(OtherList),
               box |-> List(Box), prob |-> <<99>>, probability |-> <<98>>] :
                 l \in IdLists}
        \cup {[results |-> NotAList, matches |-> NotAList, box |-> NotAList,
               prob |-> <<>>, probability |-> <<>>]}

IdBodies ==
    [kind : {"faces"}, faces : SeqsUpTo(IdFaces, MaxFaces)]
        \cup {[kind |-> "no_face_detected", faces |-> <<>>],
              [kind |-> "not_a_list", faces |-> <<>>]}

\* What the server or the network can answer to the one request.
IdAnswers == {"throw", "not_ok", "bad_json", "ok"}

InitIdentify ==
    /\ apiBase \in BOOLEAN
    /\ staticCfg = FALSE
    /\ threshold = <<>>
    /\ n = 1
    /\ bpc = "loop"
    /\ idx = 1
    /\ results = <<>>
    /\ frame = [i \in Images |-> BlankFrame]
    /\ outcome = [i \in Images |-> [status |-> "pending", result |-> NoResult]]
    /\ media = <<>>
    /\ blobs = {}
    /\ idc = IdcIdle
    /\ dw = DwIdle
    /\ scr = ScrIdle

\* ensureConfigured, then the one fetch.
IdcCall ==
    /\ idc.pc = "idle"
    /\ idc' = IF apiBase
              THEN [idc EXCEPT !.pc = "fetch", !.requests = @ + 1]
              ELSE [idc EXCEPT !.pc = "threw"]
    /\ UNCHANGED <<pipe, dw, scr>>

\* A variant that raises an error for a body without a faces list.
IdcReturnStrict(c, raw) ==
    IF raw.kind = "faces"
    THEN [c EXCEPT !.pc = "returned", !.resp = "ok", !.raw = raw,
                   !.out = Normalize(raw)]
    ELSE [c EXCEPT !.pc = "threw", !.resp = "ok", !.raw = raw]

\* The parsed body is normalized and returned; the normalization cannot
\* throw, so the catch branch is never taken.
IdcReturn(c, raw) ==
    [c EXCEPT !.pc = "returned", !.resp = "ok", !.raw = raw,
              !.out = Normalize(raw)]

\* The fetch settles: it throws, answers a non-OK status, answers a body
\* that is not JSON, or answers a parsed body.
IdcResp ==
    /\ idc.pc = "fetch"
    /\ \E a \in IdAnswers :
          IF a = "ok"
          THEN \E raw \in IdBodies : idc' = IdcReturn(idc, raw)
          ELSE idc' = [idc EXCEPT !.pc = "threw", !.resp = a]
    /\ UNCHANGED <<pipe, dw, scr>>

NextIdentify ==
    \/ IdcCall
    \/ IdcResp

SpecIdentify == InitIdentify /\ [][NextIdentify]_vars

\* ------------------------------------------- DumpWorkspace slideshow poll
InitPoll ==
    /\ apiBase = TRUE
    /\ staticCfg = FALSE
    /\ threshold = <<>>
    /\ n = 1
    /\ bpc = "loop"
    /\ idx = 1
    /\ results = <<>>
    /\ frame = [i \in Images |-> BlankFrame]
    /\ outcome = [i \in Images |-> [status |-> "pending", result |-> NoResult]]
    /\ media = <<>>
    /\ blobs = {}
    /\ idc = IdcIdle
    /\ dw = [DwIdle EXCEPT !.mounted = TRUE]
    /\ scr = ScrIdle

\* stopPolling
StopPolling(d) ==
    IF d.pollingInterval # 0
    THEN [d EXCEPT !.timers = @ \ {d.pollingInterval}, !.pollingInterval = 0]
    ELSE d

\* A variant that sets the new interval without clearing the old one.
StartPollingNoClear(d, j) ==
    [d EXCEPT !.timers = @ \cup {j}, !.pollingInterval = j]

\* startPolling(jobId)
StartPolling(d, j) ==
    [d EXCEPT !.timers = (@ \ {d.pollingInterval}) \cup {j},
              !.pollingInterval = j]

\* A state setter: React drops the update of a component that is unmounted.
SetState(d, e) == IF d.mounted THEN e ELSE d

\* handleFinishDump, with photos in the dump: the button is disabled while
\* the job is processing, and shows the video once there is one.
DwFinishDump ==
    /\ dw.mounted
    /\ ~dw.modal
    /\ dw.jobStatus # "processing"
    /\ ~(dw.jobStatus = "completed" /\ dw.slideshowUrl)
    /\ dw' = [dw EXCEPT !.modal = TRUE]
    /\ UNCHANGED <<pipe, idc, scr>>

\* The theme prompt is dismissed (not possible while generating).
DwCloseModal ==
    /\ dw.mounted
    /\ dw.modal
    /\ ~dw.gen
    /\ dw' = [dw EXCEPT !.modal = FALSE]
    /\ UNCHANGED <<pipe, idc, scr>>

\* handleGenerateSlideshow up to its await.
DwGenerate ==
    /\ dw.mounted
    /\ dw.modal
    /\ ~dw.gen
    /\ dw.jobs < MaxJobs
    /\ dw' = [dw EXCEPT !.gen = TRUE]
    /\ UNCHANGED <<pipe, idc, scr>>

GenStatuses == {"processing", "pending"}

\* The generate request settles: the job is shown and polled, or the
\* failure is reported. The screen may be gone by then.
DwGenResp ==
    /\ dw.gen
    /\ \/ \E st \in GenStatuses :
             LET j == dw.jobs + 1
                 d1 == SetState([dw EXCEPT !.jobs = j],
                                [dw EXCEPT !.jobs = j, !.jobId = j,
                                           !.jobStatus = st, !.modal = FALSE])
             IN  dw' = [StartPolling(d1, j) EXCEPT !.gen = FALSE]
       \/ dw' = [dw EXCEPT !.gen = FALSE]
    /\ UNCHANGED <<pipe, idc, scr>>

\* The interval of job j fires: one more status request.
DwTick(j) ==
    /\ j \in dw.timers
    /\ dw.inflight[j] < MaxInFlight
    /\ dw' = [dw EXCEPT !.inflight[j] = @ + 1,
                        !.late = IF j \in dw.term THEN @ \cup {j} ELSE @]
    /\ UNCHANGED <<pipe, idc, scr>>

StatusAnswers == {"processing", "completed_url", "completed", "failed",
                  "throw"}

\* A status request of job j settles.
DwStatusResp(j) ==
    /\ dw.inflight[j] > 0
    /\ \E a \in StatusAnswers :
          LET d0 == [dw EXCEPT !.inflight[j] = @ - 1,
                               !.term = IF a \in {"completed_url", "completed",
                                                  "failed"}
                                        THEN @ \cup {j} ELSE @]
              st == IF a = "completed_url" THEN "completed" ELSE a
          IN  dw' = IF a = "throw" THEN d0
                    ELSE IF a = "completed_url"
                    THEN StopPolling(SetState(d0,
                            [d0 EXCEPT !.jobStatus = st,
                                       !.slideshowUrl = TRUE]))
                    ELSE IF a = "failed"
                    THEN StopPolling(SetState(d0, [d0 EXCEPT !.jobStatus = st]))
                    ELSE SetState(d0, [d0 EXCEPT !.jobStatus = st])
    /\ UNCHANGED <<pipe, idc, scr>>

\* The cleanup of the effect: the screen is torn down.
DwUnmount ==
    /\ dw.mounted
    /\ dw' = StopPolling([dw EXCEPT !.mounted = FALSE])
    /\ UNCHANGED <<pipe, idc, scr>>

NextPoll ==
    \/ DwFinishDump
    \/ DwCloseModal
    \/ DwGenerate
    \/ DwGenResp
    \/ \E j \in Jobs : DwTick(j)
    \/ \E j \in Jobs : DwStatusResp(j)
    \/ DwUnmount

SpecPoll == InitPoll /\ [][NextPoll]_vars

\* --------------------------------------------- UploadScreen.handleUpload
\* The batch as in Init, or no batch and a photo picked in the upload screen,
\* which passes its own threshold and uploads as image 1.
InitScreen ==
    /\ apiBase \in BOOLEAN
    /\ staticCfg \in BOOLEAN
    /\ threshold = <<DefaultThreshold>>
    /\ \/ scr = ScrIdle /\ bpc = "loop" /\ n \in 1 .. MaxImages
       \/ scr = [ScrIdle EXCEPT !.pc = "picked"] /\ bpc = "none" /\ n = 1
    /\ idx = 1
    /\ results = <<>>
    /\ frame = [i \in Images |-> BlankFrame]
    /\ outcome = [i \in Images |-> [status |-> "pending", result |-> NoResult]]
    /\ media = <<>>
    /\ blobs = {}
    /\ idc = IdcIdle
    /\ dw = DwIdle

\* handleUpload(image): the call of uploadAndTagPhoto up to its first await.
ScrCall(s) ==
    /\ scr' = [s EXCEPT !.pc = "uploading", !.runs = @ + 1]
    /\ frame' = [frame EXCEPT ![1] = [BlankFrame EXCEPT !.pc = "compress"]]
    /\ UNCHANGED <<apiBase, staticCfg, threshold, n, bpc, idx, results,
                   outcome, media, blobs, idc, dw>>

\* pickImage: await handleUpload(selectedImage)
ScrUpload ==
    /\ scr.pc = "picked"
    /\ ScrCall(scr)

\* The call resolved: the success alert.
ScrSuccess ==
    /\ scr.pc = "uploading"
    /\ frame[1].pc = "resolved"
    /\ scr' = [scr EXCEPT !.pc = "success"]
    /\ frame' = [frame EXCEPT ![1] = Returned(@)]
    /\ UNCHANGED <<apiBase, staticCfg, threshold, n, bpc, idx, results,
                   outcome, media, blobs, idc, dw>>

\* A variant that uploads again by itself when the call rejected.
ScrCatchAutoRetry ==
    /\ scr.pc = "uploading"
    /\ frame[1].pc = "rejected"
    /\ scr.runs <= MaxRetries
    /\ ScrCall(scr)

\* The call rejected: the failure alert with Cancel and Retry.
ScrCatch ==
    /\ scr.pc = "uploading"
    /\ frame[1].pc = "rejected"
    /\ scr' = [scr EXCEPT !.pc = "failed"]
    /\ frame' = [frame EXCEPT ![1] = Returned(@)]
    /\ UNCHANGED <<apiBase, staticCfg, threshold, n, bpc, idx, results,
                   outcome, media, blobs, idc, dw>>

\* Retry: onPress: () => handleUpload(image)
ScrRetry ==
    /\ scr.pc = "failed"
    /\ scr.retries < MaxRetries
    /\ ScrCall([scr EXCEPT !.retries = @ + 1])

\* Cancel: onPress: navigateBack
ScrCancel ==
    /\ scr.pc = "failed"
    /\ scr' = [scr EXCEPT !.pc = "closed"]
    /\ UNCHANGED <<pipe, idc, dw>>

NextScreen ==
    \/ Next
    \/ ScrUpload
    \/ ScrSuccess
    \/ ScrCatch
    \/ ScrRetry
    \/ ScrCancel

SpecScreen == InitScreen /\ [][NextScreen]_vars

\* =============================================================== claims
Has(f, ev) == ev \in Range(f.log)

NoDup(s) == \A a, b \in 1 .. Len(s) : s[a] = s[b] => a = b

Before(f, a, b) ==
    \A k \in 1 .. Len(f.log) :
        f.log[k] = b => \E j \in 1 .. k - 1 : f.log[j] = a

UploadFailed(f) == Has(f, "proxy_throw") \/ Has(f, "blob_fail")

Row(id) == media[CHOOSE k \in 1 .. Len(media) : media[k].media_id = id]

RowsOf(i) == {k \in 1 .. Len(media) : media[k].file_url[2] = i}

\* The threshold the claims speak of: the configured one, 0.6 when none is.
ClaimThreshold == IF threshold = <<>> THEN 60 ELSE threshold[1]

\* The user ids with a match at or above the threshold on at least one face.
ClaimTagged(f) ==
    {u \in Users :
        \E k \in 1 .. Len(f.faceResult.faces) :
            \E j \in 1 .. Len(f.faceResult.faces[k].matches) :
                LET m == f.faceResult.faces[k].matches[j]
                IN  m.user_id = u /\ m.similarity >= ClaimThreshold}

\* C1: when the blob upload step fails (the proxy request throws, or the
\* proxy answer is not OK and the direct blob upload fails), the call
\* rejects, no media record is inserted for the image, and no insert,
\* identification or tag-update request has been made.
C1_UploadFailureAborts ==
    \A i \in Images :
        UploadFailed(frame[i]) =>
            /\ frame[i].pc = "rejected"
            /\ outcome[i].status = "rejected"
            /\ RowsOf(i) = {}
            /\ ~Has(frame[i], "insert_req")
            /\ ~Has(frame[i], "identify_req")
            /\ ~Has(frame[i], "update_req")

C1_Witness ==
    \E i \in Images :
        /\ frame[i].pc = "rejected"
        /\ Has(frame[i], "proxy_not_ok")
        /\ Has(frame[i], "blob_fail")
        /\ frame[i].error.kind = "missing_config"

\* C2: when blob upload and insert succeeded and the identification step
\* fails, throws or yields a malformed response, the call resolves with
\* taggedUsers = [] and faceCount = 0.
C2_IdentifyFailureYieldsZero ==
    \A i \in Images :
        (Has(frame[i], "insert_ok") /\
            (Has(frame[i], "identify_err") \/ Has(frame[i], "filter_err"))) =>
            /\ frame[i].pc = "resolved"
            /\ outcome[i].result.taggedUsers = <<>>
            /\ outcome[i].result.faceCount = 0

ClaimStored(f) == IF Has(f, "filtered") THEN ClaimTagged(f) ELSE {}

RECURSIVE SucceededUpTo(_)
SucceededUpTo(k) ==
    IF k = 0 THEN <<>>
    ELSE IF outcome[k].status = "resolved"
         THEN Append(SucceededUpTo(k - 1), outcome[k].result)
         ELSE SucceededUpTo(k - 1)

Failed == {i \in 1 .. n : outcome[i].status = "rejected"}

\* C5: the list the batch returns holds exactly the results of the images
\* whose pipeline succeeded, in input order; every image is processed, and
\* with exactly one failure the list has length N-1.
C5_BatchKeepsSuccesses ==
    bpc = "done" =>
        /\ \A i \in 1 .. n : outcome[i].status \in Settled
        /\ results = SucceededUpTo(n)
        /\ Cardinality(Failed) = 1 => Len(results) = n - 1

C5_Witness ==
    /\ bpc = "done"
    /\ n = 2
    /\ outcome[1].status = "rejected"
    /\ outcome[2].status = "resolved"
    /\ results = <<outcome[2].result>>

\* C6: at most one image's pipeline is in progress at any time, and no
\* step of an image starts before the pipeline of the image before it has
\* settled.
C6_OneAtATime ==
    /\ Cardinality({i \in Images : frame[i].pc \in InProgress}) <= 1
    /\ \A i \in Images :
          (i > 1 /\ frame[i].pc # "idle") => outcome[i - 1].status \in Settled

C6_Witness ==
    /\ n = 2
    /\ frame[2].pc \in InProgress
    /\ frame[1].pc = "returned"

Requests == {"proxy_req", "sas_req", "head_req", "put_req", "insert_req",
             "identify_req", "update_req"}

\* C7: within one run the insert is issued only after the upload returned a
\* URL, the identification only after the insert succeeded, the tag update
\* only after identification returned and the matches were filtered, and no
\* request is issued while another one is outstanding.
C7_StrictOrder ==
    \A i \in Images :
        LET f == frame[i]
        IN  /\ \A k \in 1 .. Len(f.log) :
                  f.log[k] = "insert_req" =>
                      /\ k > 1
                      /\ f.log[k - 1] \in {"proxy_ok", "blob_ok"}
                      /\ f.fileUrl # NoUrl
            /\ Before(f, "insert_ok", "identify_req")
            /\ Before(f, "identify_ok", "update_req")
            /\ Before(f, "filtered", "update_req")
            /\ \A k \in 1 .. Len(f.log) - 1 :
                  f.log[k] \in Requests => f.log[k + 1] \notin Requests

C7_Witness ==
    \E i \in Images :
        /\ frame[i].pc = "resolved"
        /\ Has(frame[i], "blob_ok")
        /\ Has(frame[i], "update_ok")

\* C8: when the insert fails after a successful upload, the call rejects,
\* no request at all follows the failed insert (no identification, no tag
\* update, no removal of the blob), and the uploaded blob stays in storage.
C8_InsertFailureAborts ==
    \A i \in Images :
        Has(frame[i], "insert_err") =>
            /\ frame[i].pc = "rejected"
            /\ frame[i].log[Len(frame[i].log)] = "insert_err"
            /\ outcome[i].status = "rejected"
            /\ ~Has(frame[i], "identify_req")
            /\ ~Has(frame[i], "update_req")
            /\ frame[i].fileUrl \in blobs
            /\ RowsOf(i) = {}

C8_Witness ==
    \E i \in Images :
        /\ frame[i].pc = "rejected"
        /\ frame[i].error.kind = "insert"
        /\ frame[i].fileUrl \in blobs

\* C9: the tag-update request is sent if and only if identification
\* succeeded and the set of qualifying user ids is non-empty.
C9_UpdateIffTagged ==
    \A i \in Images :
        Has(frame[i], "update_req") <=>
            (Has(frame[i], "filtered") /\ ClaimTagged(frame[i]) # {})

C9_Witness ==
    \E i \in Images :
        /\ frame[i].pc = "resolved"
        /\ Has(frame[i], "filtered")
        /\ frame[i].faceCount > 0
        /\ ~Has(frame[i], "update_req")

\* C10: when the tag update fails, the call still resolves and the result
\* it returns describes zero tags.
C10_UpdateFailureZeroTags ==
    \A i \in Images :
        Has(frame[i], "update_err") =>
            /\ frame[i].pc = "resolved"
            /\ outcome[i].result.taggedUsers = <<>>
Count(f, ev) == Cardinality({k \in 1 .. Len(f.log) : f.log[k] = ev})

BlobUploadEnded(f) == Has(f, "blob_ok") \/ Has(f, "blob_fail")

\* C11: the transfer succeeds only on status 201, and for any other status
\* the call rejects with an error that carries the storage service's status,
\* on the static path and on the dynamic path alike.
C11_PutStatusSurfaced ==
    \A i \in Images :
        /\ Has(frame[i], "blob_ok") => Has(frame[i], "put_ok")
        /\ Has(frame[i], "put_not_created") =>
              /\ frame[i].pc = "rejected"
              /\ frame[i].error.kind = "put_status"
              /\ frame[i].error.status \in PutStatuses \ {CreatedStatus}

\* C12: when the static configuration is incomplete and no write URL can be
\* obtained (no API base, or the token request throws or is not OK), the
\* blob upload rejects with the fatal configuration error and nothing is
\* written to storage.
C12_NoCredentialIsFatal ==
    \A i \in Images :
        (~staticCfg /\ Has(frame[i], "proxy_not_ok")
            /\ (~apiBase \/ Has(frame[i], "sas_fail"))) =>
            /\ frame[i].pc = "rejected"
            /\ frame[i].error.kind = "missing_config"
            /\ ~Has(frame[i], "put_req")
            /\ BlobUrl(i) \notin blobs

C12_Witness ==
    \E i \in Images :
        /\ ~staticCfg
        /\ frame[i].pc = "rejected"
        /\ Has(frame[i], "sas_fail")

\* C13: with account, container and access token all configured, the blob
\* upload sends no token request and no existence probe, and performs one
\* direct write (exactly one for a local file that exists) to the URL built
\* from the configuration.
C13_StaticPathDirectWrite ==
    staticCfg =>
        \A i \in Images :
            /\ ~Has(frame[i], "sas_req")
            /\ ~Has(frame[i], "head_req")
            /\ Count(frame[i], "put_req") <= 1
            /\ (BlobUploadEnded(frame[i]) /\ Has(frame[i], "info_ok")) =>
                  Count(frame[i], "put_req") = 1
            /\ Has(frame[i], "blob_ok") => frame[i].fileUrl = BlobUrl(i)

C13_Witness ==
    \E i \in Images :
        /\ staticCfg
        /\ apiBase
        /\ frame[i].pc = "resolved"
        /\ Has(frame[i], "blob_ok")
        /\ Count(frame[i], "put_req") = 1

\* The matches array the claim describes for one raw face.
ClaimMatches(f) ==
    IF f.results.isList
    THEN [j \in 1 .. Len(f.results.val) |-> MapResult(f.results.val[j])]
    ELSE IF f.matches.isList THEN f.matches.val ELSE <<>>

\* C14: for an OK response whose faces field is a list, the client returns
\* one entry per raw face in the same order, each with face_index equal to
\* its position, a box, a probability and the matches taken from `results`
\* when that is a list, otherwise from `matches`, otherwise empty; total_faces
\* is the number of entries.
C14_NormalizedFaceList ==
    (idc.resp = "ok" /\ idc.raw.kind = "faces") =>
        /\ idc.pc = "returned"
        /\ Len(idc.out.faces) = Len(idc.raw.faces)
        /\ idc.out.total_faces = Len(idc.raw.faces)
        /\ \A k \in 1 .. Len(idc.raw.faces) :
              LET f == idc.raw.faces[k]
                  o == idc.out.faces[k]
              IN  /\ o.face_index = k - 1
                  /\ o.box = (IF f.box.isList THEN f.box.val ELSE <<>>)
                  /\ o.probability =
                        (IF f.prob # <<>> THEN f.prob[1]
                         ELSE IF f.probability # <<>> THEN f.probability[1]
                         ELSE 0)
                  /\ o.matches = ClaimMatches(f)

C14_Witness ==
    /\ idc.pc = "returned"
    /\ idc.raw.kind = "faces"
    /\ Len(idc.raw.faces) = 2
    /\ idc.raw.faces[1].results.isList
    /\ idc.raw.faces[1].matches.isList
    /\ idc.raw.faces[1].results.val # idc.raw.faces[1].matches.val
    /\ ~idc.raw.faces[2].results.isList
    /\ idc.raw.faces[2].matches.isList
    /\ idc.raw.faces[2].matches.val # <<>>

\* C15: when the endpoint answers that no face was found, the client returns
\* an empty face list with total_faces = 0 and raises no error.
C15_NoFaceIsEmptyList ==
    (idc.resp = "ok" /\ idc.raw.kind = "no_face_detected") =>
        /\ idc.pc = "returned"
        /\ idc.out = [faces |-> <<>>, total_faces |-> 0]

C15_Witness ==
    /\ idc.pc = "returned"
    /\ idc.raw.kind = "no_face_detected"

\* C16: when the identify call reports zero faces for an uploaded photo, the
\* upload resolves with faceCount = 0 and taggedUsers = [], no tag update is
\* sent, and the record created for the photo keeps its empty tag list.
C16_ZeroFacesResolves ==
    \A i \in Images :
        (Has(frame[i], "identify_ok") /\ frame[i].faceResult.total_faces = 0) =>
            /\ frame[i].pc = "resolved"
            /\ outcome[i].status = "resolved"
            /\ outcome[i].result.faceCount = 0
            /\ outcome[i].result.taggedUsers = <<>>
            /\ outcome[i].result.mediaId = frame[i].mediaId
            /\ ~Has(frame[i], "update_req")
            /\ Row(frame[i].mediaId).tagged_users = <<>>

C16_Witness ==
    \E i \in Images :
        /\ Has(frame[i], "identify_ok")
        /\ frame[i].faceResult.total_faces = 0
        /\ outcome[i].status = "resolved"
        /\ \E k \in 1 .. Len(media) : media[k].media_id = frame[i].mediaId

\* C17: one call sends at most one request, and a failed call (the request
\* throws, a non-OK status, no base URL) or a malformed body (not JSON, or
\* JSON without a faces list that is not the no-face answer) ends in an error,
\* never in a returned value.
C17_FailuresSurface ==
    /\ idc.requests <= 1
    /\ (idc.pc \in {"returned", "threw"}
          /\ (\/ ~apiBase
              \/ idc.resp \in {"throw", "not_ok", "bad_json"}
              \/ idc.raw.kind = "not_a_list")) => idc.pc = "threw"

\* C18: once a status response has reported a terminal state (completed or
\* failed) for a job, the timer of that job is cancelled and no status
\* request is sent for it any more.
C18_TerminalStopsPolling ==
    \A j \in dw.term : j \notin dw.timers /\ j \notin dw.late

\* C19: once the screen has been torn down no polling timer is active.
C19_NoTimerAfterTeardown ==
    ~dw.mounted => dw.timers = {}

\* A call of uploadAndTagPhoto for image i starts in this step.
CallStarts(i) == frame'[i].pc = "compress" /\ frame[i].pc # "compress"

\* C20: nothing is retried automatically. Within one run the insert, the
\* identify request and the tag update are each sent at most once; the batch
\* calls uploadAndTagPhoto once for every image, in order, and has called it
\* for all of them when it returns; the upload screen calls it once, and
\* again only when Retry is chosen after a failure.
C20_NoAutomaticRetry ==
    /\ [](\A i \in Images :
             /\ Count(frame[i], "insert_req") <= 1
             /\ Count(frame[i], "identify_req") <= 1
             /\ Count(frame[i], "update_req") <= 1)
    /\ [](bpc = "done" =>
             \A i \in Images :
                 frame[i].pc = (IF i <= n THEN "returned" ELSE "idle"))
    /\ [](scr.runs <= scr.retries + 1)
    /\ [][\A i \in Images :
             CallStarts(i) =>
                 IF scr.pc = "idle"
                 THEN frame[i].pc = "idle" /\ i = idx
                 ELSE \/ scr.pc = "picked"
                      \/ scr.pc = "failed" /\ scr'.retries = scr.retries + 1]_vars

C20_Witness ==
    /\ scr.retries = 1
    /\ scr.runs = 2
    /\ Has(frame[1], "insert_req")
    /\ Has(frame[1], "identify_req")

\* What holds of every record in the store whatever the tag update did: its
\* file is in blob storage, its id is its position (ids are handed out in
\* order, so no record is missing), and it was written after its creation
\* only by a tag update.
RecordsSound ==
    \A k \in 1 .. Len(media) :
        /\ media[k].file_url \in blobs
        /\ media[k].media_id = k
        /\ media[k].updates = 0 => media[k].tagged_users = <<>>

\* No step removes or replaces a record.
RecordsKept ==
    /\ Len(media') >= Len(media)
    /\ \A k \in 1 .. Len(media) :
          /\ media'[k].media_id = media[k].media_id
          /\ media'[k].file_url = media[k].file_url

\* C21 as stated: every record is created after the blob upload succeeded and
\* has been updated exactly once when the run that created it has ended.
C21_Original ==
    /\ RecordsSound
    /\ \A i \in Images :
          (frame[i].pc = "resolved") => Row(frame[i].mediaId).updates = 1

\* C21, amended: every record is created only after the blob upload
\* succeeded, is updated at most once afterwards (once exactly when the tag
\* update was sent and succeeded, never when no user was tagged or the
\* identification failed), and is never deleted.
C21_RecordLifecycle ==
    /\ []RecordsSound
    /\ [](\A k \in 1 .. Len(media) : media[k].updates <= 1)
    /\ [](\A i \in Images :
             /\ Has(frame[i], "insert_req") =>
                   (Has(frame[i], "proxy_ok") \/ Has(frame[i], "blob_ok"))
             /\ (frame[i].pc = "resolved") =>
                   (Row(frame[i].mediaId).updates = 1
                        <=> Has(frame[i], "update_ok")))
    /\ [][RecordsKept]_vars

C21_Witness ==
    /\ Len(media) = 2
    /\ media[1].updates = 1
    /\ media[2].updates = 0
    /\ \E i \in Images : frame[i].pc = "resolved" /\ frame[i].mediaId = 2

\* uploadToAzureBlob has been called in the run of this frame.
DirectEntered(f) ==
    Has(f, "sas_req") \/ Has(f, "info_req") \/ Has(f, "blob_fail")

\* C22 as stated: the pre-signed write URL path comes first and the proxy
\* endpoint is only asked after it.
C22_Original ==
    \A i \in Images :
        Has(frame[i], "proxy_req") =>
            /\ DirectEntered(frame[i])
            /\ frame[i].log[1] # "proxy_req"

\* C22, amended: the upload goes through the backend proxy endpoint first,
\* and uploadToAzureBlob (the pre-signed write URL path) is used only as the
\* fallback, when the proxy answered with a non-OK status.
C22_ProxyFirst ==
    \A i \in Images :
        /\ frame[i].log # <<>> => frame[i].log[1] = "proxy_req"
        /\ DirectEntered(frame[i]) => Has(frame[i], "proxy_not_ok")
        /\ Has(frame[i], "proxy_ok") => ~DirectEntered(frame[i])
        /\ Count(frame[i], "proxy_req") <= 1

C22_Witness ==
    \E i \in Images :
        /\ frame[i].pc = "resolved"
        /\ Has(frame[i], "proxy_not_ok")
        /\ Has(frame[i], "blob_ok")
        /\ frame[i].fileUrl = BlobUrl(i)

\* C23: when every external call eventually returns or fails, every run of
\* uploadAndTagPhoto eventually resolves or rejects, and the batch eventually
\* returns after it has processed all n images.
C23_Terminates ==
    /\ \A i \in Images :
          (frame[i].pc \in InProgress) ~> (frame[i].pc \in Settled)
    /\ <>(/\ bpc = "done"
          /\ idx = n + 1
          /\ \A i \in 1 .. n : frame[i].pc = "returned")

C23_Witness ==
    /\ bpc = "done"
    /\ n = 2
    /\ Len(results) = 1
    /\ outcome[1].status = "rejected"
    /\ outcome[2].status = "resolved"

\* A status response of job j arrives in this step.
StatusArrives(j) == dw'.inflight[j] < dw.inflight[j]

\* C24: a status response that arrives when the polling of its job has been
\* stopped changes neither the displayed status and slideshow URL nor the
\* timers (it does not stop the polling of a newer job).
C24_LateResponseIgnored ==
    [][\A j \in Jobs :
          (StatusArrives(j) /\ j \notin dw.timers) =>
              /\ dw'.jobStatus = dw.jobStatus
              /\ dw'.slideshowUrl = dw.slideshowUrl
              /\ dw'.timers = dw.timers]_vars

\* C25: at most one polling timer is active, and it is the one the ref holds.
C25_OneTimer ==
    /\ Cardinality(dw.timers) <= 1
    /\ dw.timers \subseteq {dw.pollingInterval}

C25_Witness ==
    /\ dw.mounted
    /\ dw.jobs = 2
    /\ dw.timers = {2}
    /\ 1 \notin dw.term
    /\ dw.inflight[1] > 0

\* C26: when a run resolves, the mediaId of its result is the id of the
\* record this run inserted, and the fileUrl of its result is the file_url of
\* that record and the URL that the successful upload of this run returned.
C26_ResultNamesOwnRecord ==
    \A i \in Images :
        frame[i].pc = "resolved" =>
            LET res == outcome[i].result
            IN  /\ outcome[i].status = "resolved"
                /\ Has(frame[i], "insert_ok")
                /\ res.mediaId \in 1 .. Len(media)
                /\ RowsOf(i) = {res.mediaId}
                /\ Row(res.mediaId).file_url = res.fileUrl
                /\ res.fileUrl \in blobs
                /\ res.fileUrl =
                      (IF Has(frame[i], "proxy_ok") THEN ProxyUrl(i)
                       ELSE BlobUrl(i))
                /\ Has(frame[i], "proxy_ok") \/ Has(frame[i], "blob_ok")

C26_Witness ==
    /\ frame[2].pc = "resolved"
    /\ Has(frame[2], "proxy_ok")
    /\ outcome[1].status = "resolved"
    /\ outcome[1].result.fileUrl = BlobUrl(1)
    /\ outcome[2].result.mediaId = 2

\* The step appends one record and leaves the others as they are.
InsertsOne ==
    /\ Len(media') = Len(media) + 1
    /\ \A k \in 1 .. Len(media) : media'[k] = media[k]

\* The step writes the tag list of the record with this id and nothing else.
UpdatesTagsOf(id) ==
    /\ Len(media') = Len(media)
    /\ \A k \in 1 .. Len(media) :
          IF media[k].media_id = id
          THEN media'[k] = [media[k] EXCEPT !.tagged_users = media'[k].tagged_users,
                                            !.updates = media'[k].updates]
          ELSE media'[k] = media[k]

\* C27: a run changes the media store only by inserting one record and by
\* updating the tagged_users of that record; every other record and every
\* other field stays as it is.
C27_StoreFrame ==
    /\ [](\A i \in Images : Cardinality(RowsOf(i)) <= 1)
    /\ [][media' # media =>
             \E i \in Images :
                 /\ frame[i].pc \in {"insert", "update"}
                 /\ \A j \in Images \ {i} : frame'[j] = frame[j]
                 /\ IF frame[i].pc = "insert"
                    THEN InsertsOne /\ RowsOf(i) = {}
                    ELSE UpdatesTagsOf(frame[i].mediaId)
                           /\ frame[i].mediaId \in RowsOf(i)]_vars

C27_Witness ==
    /\ Len(media) = 2
    /\ media[1].updates = 0
    /\ media[1].tagged_users = <<>>
    /\ media[2].updates = 1
    /\ media[2].tagged_users # <<>>

\* C28: the batch never rejects. It ends by returning a list that holds the
\* result of every image that resolved, so at most n entries, and the empty
\* list when every image failed.
C28_BatchNeverRejects ==
    /\ bpc \in {"loop", "await", "done"}
    /\ Len(results) <= n
    /\ (bpc = "loop" /\ idx > n) \/ bpc = "done" =>
          /\ \A i \in 1 .. n : outcome[i].status \in {"resolved", "rejected"}
          /\ Len(results) =
                Cardinality({i \in 1 .. n : outcome[i].status = "resolved"})

C28_Witness ==
    /\ bpc = "done"
    /\ n = 2
    /\ results = <<>>
    /\ \A i \in 1 .. n : outcome[i].status = "rejected"

\* C29: when the proxy upload did not succeed, for whatever reason, the
\* direct blob upload has been attempted by the time the run is reported as
\* failed.
C29_ProxyFailureFallsBack ==
    \A i \in Images :
        (frame[i].pc = "rejected" /\ Has(frame[i], "proxy_req")
            /\ ~Has(frame[i], "proxy_ok")) => DirectEntered(frame[i])

\* C30: one call of uploadToAzureBlob sends at most one PUT, on either path;
\* a write that failed ends the call, and no other write follows it.
C30_AtMostOnePut ==
    \A i \in Images :
        /\ Count(frame[i], "put_req") <= 1
        /\ (Has(frame[i], "put_not_created") \/ Has(frame[i], "put_throw")) =>
              /\ frame[i].pc = "rejected"
              /\ frame[i].log[Len(frame[i].log)] = "blob_fail"
              /\ BlobUrl(i) \notin blobs

C30_Witness ==
    \E i \in Images :
        /\ ~staticCfg
        /\ Has(frame[i], "sas_req")
        /\ Has(frame[i], "put_not_created")
        /\ frame[i].pc = "rejected"
====
